---- MODULE Spec2Model ----
(***************************************************************************)
(* Credit economy of the figurine plugin: EconomyManager (economy.py) and  *)
(* the handlers of FigurineProPlugin (main.py) that debit, credit and      *)
(* refund balances.  Handlers are coroutines on one asyncio event loop: a  *)
(* handler runs without interruption from one suspension point (an await   *)
(* that really suspends, or a yield of its async generator) to the next,   *)
(* so every action below is one such run.                                  *)
(***************************************************************************)
EXTENDS Integers, FiniteSets, Sequences, TLC

VARIABLES
    conf,               \* the plugin configuration (AstrBotConfig), read-only
    user_counts,        \* EconomyManager.user_counts
    group_counts,       \* EconomyManager.group_counts
    user_checkin_data,  \* EconomyManager.user_checkin_data
    user_counts_file,   \* content of user_counts.json
    group_counts_file,  \* content of group_counts.json
    user_checkin_file,  \* content of user_checkin.json
    clock,              \* the local calendar day datetime.now() falls in
    h,                  \* the handler invocations in flight, one record per slot
    serial_user,        \* history: user balances if every admitted debit/credit applied in issue order
    serial_group,       \* history: group balances, likewise
    faults              \* history: the writes that have failed so far

vars == <<conf, user_counts, group_counts, user_checkin_data, user_counts_file,
          group_counts_file, user_checkin_file, clock, h, serial_user, serial_group,
          faults>>

-----------------------------------------------------------------------------
(* Bounds *)

NProc == 2         \* handler invocations that can be in flight together
NUsers == 2        \* user ids "1" .. NUsers
NGroups == 1       \* group ids "11" ..
MaxCount == 1      \* largest balance a check-in or an admin credit is followed to
MaxInit == 2       \* largest balance a backing file starts with, or a refund is followed to
MaxDay == 2        \* calendar days explored
MaxFaults == 1     \* file writes that fail
MaxBalance == 5    \* largest balance followed where check-ins or admin credits run alone

Procs == 1..NProc
Users == {ToString(i) : i \in 1..NUsers}
Groups == {ToString(10 + i) : i \in 1..NGroups}

-----------------------------------------------------------------------------
(* Python values *)

\* None, and the empty group id of a private chat (both falsy)
None == "None"
NoGroup == ""

\* an empty dict {}
EmptyDict == [k \in {} |-> 0]

\* dict.get(k, default)
Get(d, k, default) == IF k \in DOMAIN d THEN d[k] ELSE default

\* d[k] = v
Put(d, k, v) == [x \in (DOMAIN d) \cup {k} |-> IF x = k THEN v ELSE d[x]]

\* truth value of a configuration entry or an id: None, False, "" are falsy
Truthy(v) == v \notin {None, "False", NoGroup}

\* self.conf.get(key, default); booleans are stored as "True" / "False"
ConfGet(key, default) == IF key \in DOMAIN conf THEN conf[key] ELSE default

-----------------------------------------------------------------------------
(* Persistent store: _load_json / _save_json *)

\* the Python list that json.loads returns for a JSON array; a dict is a
\* function on ids, and no id is "[]"
JsonList == [k \in {"[]"} |-> 0]
IsDict(v) == "[]" \notin DOMAIN v

\* a backing file: absent, holding the JSON object json.dumps wrote for d,
\* holding text that json.loads rejects (an empty or cut-off file), or holding
\* valid JSON that is not an object (an array)
AbsentFile == [st |-> "absent", data |-> EmptyDict]
OkFile(d) == [st |-> "ok", data |-> d]
CorruptFile == [st |-> "corrupt", data |-> EmptyDict]
ListFile == [st |-> "list", data |-> EmptyDict]

\* json.loads(path.read_text()): raises on text that is not JSON, else returns
\* the value the text denotes
JsonLoads(f) ==
    [raised |-> f.st = "corrupt",
     value |-> IF f.st = "list" THEN JsonList ELSE f.data]

\* EconomyManager._load_json
LoadJson(f) ==
    IF f.st = "absent" THEN EmptyDict
    ELSE IF JsonLoads(f).raised THEN EmptyDict
    ELSE JsonLoads(f).value

\* what path.write_text can do: open(path, "w") truncates the file, then the
\* text is written and flushed.  It returns; or open raises (no permission, no
\* directory) and the file is untouched; or the write raises after the
\* truncation (disk full, I/O error) and the file is left empty or cut off
Wrote == "wrote"
Refused == "refused"
Torn == "torn"
WriteOutcomes == {Wrote, Refused, Torn}

\* path.write_text(json.dumps(data)) run by asyncio.to_thread: the snapshot was
\* serialised when the save was issued; an exception is logged and swallowed
WriteText(f, snap, res) ==
    IF res = Wrote THEN OkFile(snap)
    ELSE IF res = Torn THEN CorruptFile
    ELSE f

-----------------------------------------------------------------------------
(* Configuration *)

cost == 1

\* check_and_deduct: self.conf.get("enable_user_limit", True)
EnableUserLimitTypo == Truthy(ConfGet("enable_user_limits", "True"))
EnableUserLimit == Truthy(ConfGet("enable_user_limit", "True"))

\* check_and_deduct: self.conf.get("enable_group_limit", False)
EnableGroupLimit == Truthy(ConfGet("enable_group_limit", "False"))

\* on_message: self.conf.get("enable_user_limit") / ("enable_group_limit"), no default
RefundUserLimit == Truthy(ConfGet("enable_user_limit", None))
RefundGroupLimitNever == FALSE
RefundGroupLimit == Truthy(ConfGet("enable_group_limit", None))

\* is_admin: str(sender) in self.conf.get("admins_id", [])
is_adminNever(sender) == FALSE
is_adminAlways(sender) == TRUE
is_admin(sender) == sender \in ConfGet("admins_id", {})

\* on_message: str(sender_id) in (self.conf.get("user_blacklist") or [])
Blacklisted(sender) == sender \in ConfGet("user_blacklist", {})

-----------------------------------------------------------------------------
(* EconomyManager.check_and_deduct, up to its first suspension *)

\* gid = str(group_id) if group_id else None
GidOf(group_id) == IF Truthy(group_id) THEN group_id ELSE None

\* line 79: the group cannot pay
GroupShortNever(g_cnt) == FALSE
GroupShort(g_cnt) == g_cnt < cost

\* line 86: the user can pay
UserPaysAlways(u_cnt) == u_cnt >= 0
UserPays(u_cnt) == u_cnt >= cost

\* lines 94 and 105: the group can pay
GroupPays(g_cnt) == g_cnt >= cost

Reject(uc, gc, msg) ==
    [ok |-> FALSE, msg |-> msg, deducted |-> FALSE, source |-> "", uc |-> uc, gc |-> gc]
Admit(uc, gc, msg, deducted, source) ==
    [ok |-> TRUE, msg |-> msg, deducted |-> deducted, source |-> source, uc |-> uc, gc |-> gc]

\* lines 84-101: the user gate is on
UserBranchGroupFirst(uc, gc, uid, gid, eg) ==
    IF gid # None /\ eg /\ GroupPays(Get(gc, gid, 0))
    THEN Admit(uc, Put(gc, gid, Get(gc, gid, 0) - cost), "success", TRUE, "group")
    ELSE IF UserPays(Get(uc, uid, 0))
    THEN Admit(Put(uc, uid, Get(uc, uid, 0) - cost), gc, "success", TRUE, "user")
    ELSE Reject(uc, gc, "user short")
UserBranchDebitFirst(uc, gc, uid, gid, eg) ==
    LET u_cnt == Get(uc, uid, 0)
        debited == Put(uc, uid, u_cnt - cost)
    IN  IF UserPays(u_cnt) THEN Admit(debited, gc, "success", TRUE, "user")
        ELSE IF gid # None /\ eg /\ GroupPays(Get(gc, gid, 0))
        THEN Admit(uc, Put(gc, gid, Get(gc, gid, 0) - cost), "success", TRUE, "group")
        ELSE Reject(debited, gc, "user short")
UserBranchNoFallback(uc, gc, uid, gid, eg) ==
    IF UserPays(Get(uc, uid, 0))
    THEN Admit(Put(uc, uid, Get(uc, uid, 0) - cost), gc, "success", TRUE, "user")
    ELSE Reject(uc, gc, "user short")
UserBranch(uc, gc, uid, gid, eg) ==
    LET u_cnt == Get(uc, uid, 0) IN
    IF UserPays(u_cnt)
    THEN Admit(Put(uc, uid, u_cnt - cost), gc, "success", TRUE, "user")
    ELSE IF gid # None /\ eg
         THEN LET g_cnt == Get(gc, gid, 0) IN
              IF GroupPays(g_cnt)
              THEN Admit(uc, Put(gc, gid, g_cnt - cost), "success", TRUE, "group")
              ELSE Reject(uc, gc, "user and group short")
         ELSE Reject(uc, gc, "user short")

\* lines 102-110 and 118: the user gate is off
GroupBranch(uc, gc, uid, gid, eg) ==
    IF gid # None /\ eg
    THEN LET g_cnt == Get(gc, gid, 0) IN
         IF GroupPays(g_cnt)
         THEN Admit(uc, Put(gc, gid, g_cnt - cost), "success", TRUE, "group")
         ELSE Reject(uc, gc, "group short")
    ELSE Admit(uc, gc, "no limit enabled", FALSE, "")

\* lines 56-111: the decision and the in-memory debit, as a function of the two
\* mappings, the ids and the two gates; the result carries the new mappings
CheckAndDeduct(uc, gc, user_id, group_id, eu, eg) ==
    LET uid == user_id
        gid == GidOf(group_id)
    IN  IF ~eu /\ ~eg THEN Admit(uc, gc, "unrestricted", FALSE, "")
        ELSE IF gid # None /\ eg /\ GroupShort(Get(gc, gid, 0))
        THEN Reject(uc, gc, "group short")
        ELSE IF eu THEN UserBranch(uc, gc, uid, gid, eg)
        ELSE GroupBranch(uc, gc, uid, gid, eg)

\* EconomyManager.admin_add_points, up to its save: the credited mappings
AdminAddPointsUserOnly(uc, gc, target_id, count, is_group) ==
    [uc |-> Put(uc, target_id, Get(uc, target_id, 0) + count), gc |-> gc, file |-> "user"]
AdminAddPoints(uc, gc, target_id, count, is_group) ==
    IF is_group
    THEN [uc |-> uc, gc |-> Put(gc, target_id, Get(gc, target_id, 0) + count), file |-> "group"]
    ELSE [uc |-> Put(uc, target_id, Get(uc, target_id, 0) + count), gc |-> gc, file |-> "user"]

-----------------------------------------------------------------------------
(* Handler invocations *)

\* the mappings check_and_deduct reads: self.user_counts, self.group_counts
ReadUserCountsFromFile == LoadJson(user_counts_file)
ReadUserCounts == user_counts
ReadGroupCounts == group_counts

\* datetime.now().strftime("%Y-%m-%d") on calendar day d
DateStr(d) == "2025-01-0" \o ToString(d)

IdleRec ==
    [pc |-> "idle", op |-> "none", sender |-> "", group |-> NoGroup,
     skip_cost |-> FALSE, msg |-> "", deducted |-> FALSE, source |-> "",
     refunds |-> 0, refund_to |-> "", today |-> "", nums |-> <<>>, ats |-> <<>>,
     target_id |-> "", count |-> 0, user_cnt |-> 0, group_cnt |-> 0, outcome |-> "",
     file |-> "", snap |-> EmptyDict,
     max_retries |-> 0, i |-> 0, attempts |-> 0, fails |-> 0]

\* history: the balances a serial execution of the admitted operations gives
SerialDebit(r, uid, gid) ==
    /\ serial_user' = IF r.deducted /\ r.source = "user"
                      THEN Put(serial_user, uid, Get(serial_user, uid, 0) - cost)
                      ELSE serial_user
    /\ serial_group' = IF r.deducted /\ r.source = "group"
                       THEN Put(serial_group, gid, Get(serial_group, gid, 0) - cost)
                       ELSE serial_group
SerialCredit(id, count, is_group) ==
    /\ serial_user' = IF is_group THEN serial_user
                      ELSE Put(serial_user, id, Get(serial_user, id, 0) + count)
    /\ serial_group' = IF is_group
                       THEN Put(serial_group, id, Get(serial_group, id, 0) + count)
                       ELSE serial_group

\* on_message lines 192-216 with check_and_deduct lines 56-113: a message that
\* hits a preset, from a sender who is not blacklisted.  Runs to the save of
\* check_and_deduct, to the yield of line 218, or to the return of line 216.
OnMessage(p, sender, group_id) ==
    /\ h[p].pc = "idle"
    /\ ~Blacklisted(sender)
    /\ UNCHANGED <<conf, user_checkin_data, user_counts_file, group_counts_file,
                   user_checkin_file, clock, faults>>
    /\ LET start == [IdleRec EXCEPT !.op = "msg", !.sender = sender, !.group = group_id]
       IN  IF is_admin(sender)
           THEN /\ h' = [h EXCEPT ![p] = [start EXCEPT !.skip_cost = TRUE, !.pc = "images"]]
                /\ UNCHANGED <<user_counts, group_counts, serial_user, serial_group>>
           ELSE LET r == CheckAndDeduct(ReadUserCounts, ReadGroupCounts, sender, group_id,
                                        EnableUserLimit, EnableGroupLimit)
                IN  /\ user_counts' = r.uc
                    /\ group_counts' = r.gc
                    /\ SerialDebit(r, sender, GidOf(group_id))
                    /\ h' = [h EXCEPT ![p] =
                         IF ~r.ok
                         THEN [start EXCEPT !.pc = "done", !.outcome = "rejected",
                                  !.msg = r.msg]
                         ELSE IF r.deducted
                         THEN [start EXCEPT !.pc = "cd_save", !.msg = r.msg,
                                  !.deducted = TRUE,
                                  !.source = r.source, !.file = r.source,
                                  !.snap = IF r.source = "user" THEN r.uc ELSE r.gc]
                         ELSE [start EXCEPT !.pc = "images", !.msg = r.msg]]

\* _save_json: the write of the snapshot taken when the save was issued
SaveFile(file, snap, wrote) ==
    /\ wrote = Wrote \/ faults < MaxFaults
    /\ faults' = IF wrote = Wrote THEN faults ELSE faults + 1
    /\ user_counts_file' = IF file = "user" THEN WriteText(user_counts_file, snap, wrote)
                           ELSE user_counts_file
    /\ group_counts_file' = IF file = "group" THEN WriteText(group_counts_file, snap, wrote)
                            ELSE group_counts_file
    /\ user_checkin_file' = IF file = "checkin" THEN WriteText(user_checkin_file, snap, wrote)
                            ELSE user_checkin_file

\* check_and_deduct lines 114-116 resumed, on_message lines 211-218
CdSaveDone(p, wrote) ==
    /\ h[p].pc = "cd_save"
    /\ SaveFile(h[p].file, h[p].snap, wrote)
    /\ h' = [h EXCEPT ![p].pc = "images", ![p].file = "", ![p].snap = EmptyDict]
    /\ UNCHANGED <<conf, user_counts, group_counts, user_checkin_data, clock,
                   serial_user, serial_group>>

\* on_message lines 228-232 and 258-268: the refund, up to the save of
\* admin_add_points; outcome names why the request failed
Refund(p, outcome) ==
    LET me == h[p]
        done == [me EXCEPT !.pc = "done", !.outcome = outcome]
    IN  IF me.skip_cost \/ (~RefundUserLimit /\ ~(RefundGroupLimit /\ Truthy(me.group)))
        THEN /\ h' = [h EXCEPT ![p] = done]
             /\ UNCHANGED <<user_counts, group_counts, serial_user, serial_group>>
        ELSE LET is_group == ~RefundUserLimit
                 target == IF is_group THEN me.group ELSE me.sender
                 r == AdminAddPoints(user_counts, group_counts, target, 1, is_group)
             IN  /\ Get(IF is_group THEN r.gc ELSE r.uc, target, 0) <= MaxInit
                 /\ user_counts' = r.uc
                 /\ group_counts' = r.gc
                 /\ SerialCredit(target, 1, is_group)
                 /\ h' = [h EXCEPT ![p] =
                        [me EXCEPT !.pc = "refund_save", !.outcome = outcome,
                            !.refunds = me.refunds + 1, !.refund_to = r.file,
                            !.target_id = target, !.count = 1,
                            !.file = r.file,
                            !.snap = IF is_group THEN r.gc ELSE r.uc]]

\* on_message lines 220-236: get_images_from_event returned; text_only is
\* whether the preset's prompt (fixed by the message, first read here) holds "text_only"
GetImagesDone(p, images, text_only) ==
    /\ h[p].pc = "images"
    /\ UNCHANGED <<conf, user_checkin_data, user_counts_file, group_counts_file,
                   user_checkin_file, clock, faults>>
    /\ IF ~images /\ ~text_only
       THEN Refund(p, "noimage")
       ELSE /\ h' = [h EXCEPT ![p].pc = "api"]
            /\ UNCHANGED <<user_counts, group_counts, serial_user, serial_group>>

\* on_message lines 236-270: _call_api returned bytes or an error string
ApiDone(p, is_bytes) ==
    /\ h[p].pc = "api"
    /\ UNCHANGED <<conf, user_checkin_data, user_counts_file, group_counts_file,
                   user_checkin_file, clock, faults>>
    /\ IF is_bytes
       THEN /\ h' = [h EXCEPT ![p].pc = "done", ![p].outcome = "success"]
            /\ UNCHANGED <<user_counts, group_counts, serial_user, serial_group>>
       ELSE Refund(p, "apierror")

\* admin_add_points line 154 / 159 resumed and line 155 / 160 (the balance it
\* reports is read now), then on_message line 233 or 270
RefundSaveDone(p, wrote) ==
    /\ h[p].pc = "refund_save"
    /\ SaveFile(h[p].file, h[p].snap, wrote)
    /\ h' = [h EXCEPT ![p].pc = "done", ![p].file = "", ![p].snap = EmptyDict,
                      ![p].user_cnt = IF h[p].file = "user"
                                      THEN Get(user_counts, h[p].target_id, 0) ELSE 0,
                      ![p].group_cnt = IF h[p].file = "group"
                                       THEN Get(group_counts, h[p].target_id, 0) ELSE 0]
    /\ UNCHANGED <<conf, user_counts, group_counts, user_checkin_data, clock,
                   serial_user, serial_group>>

\* the handler's generator is exhausted: the invocation is over
Return(p) ==
    /\ h[p].pc = "done"
    /\ h' = [h EXCEPT ![p] = IdleRec]
    /\ UNCHANGED <<conf, user_counts, group_counts, user_checkin_data, user_counts_file,
                   group_counts_file, user_checkin_file, clock, serial_user, serial_group,
                   faults>>

-----------------------------------------------------------------------------
(* Check-in *)

\* max(1, max_r)
Max(a, b) == IF a >= b THEN a ELSE b

\* checkin line 122: self.conf.get("enable_checkin", False)
EnableCheckinDefaultOn == Truthy(ConfGet("enable_checkin", "True"))
EnableCheckin == Truthy(ConfGet("enable_checkin", "False"))

\* checkin line 128: self.user_checkin_data.get(uid) == today
CheckedInTodayOnFile(uid, today) == Get(LoadJson(user_checkin_file), uid, None) = today
CheckedInToday(uid, today) == Get(user_checkin_data, uid, None) = today

\* checkin lines 133-136: the rewards the call can draw
RewardsFromZero ==
    IF Truthy(ConfGet("enable_random_checkin", "False"))
    THEN 0..Max(1, ConfGet("checkin_random_reward_max", 5))
    ELSE {ConfGet("checkin_fixed_reward", 3)}
Rewards ==
    LET reward == ConfGet("checkin_fixed_reward", 3)
        max_r == ConfGet("checkin_random_reward_max", 5)
    IN  IF Truthy(ConfGet("enable_random_checkin", "False"))
        THEN 1..Max(1, max_r)
        ELSE {reward}

\* cmd_checkin line 318 with checkin lines 122-143: to the first save or a return
CmdCheckin(p, sender, reward) ==
    /\ h[p].pc = "idle"
    /\ UNCHANGED <<conf, group_counts, user_counts_file, group_counts_file,
                   user_checkin_file, clock, serial_group, faults>>
    /\ LET start == [IdleRec EXCEPT !.op = "checkin", !.sender = sender]
           uid == sender
           today == DateStr(clock)
       IN  IF ~EnableCheckin
           THEN /\ h' = [h EXCEPT ![p] = [start EXCEPT !.pc = "done", !.outcome = "disabled"]]
                /\ UNCHANGED <<user_counts, user_checkin_data, serial_user>>
           ELSE IF CheckedInToday(uid, today)
           THEN /\ h' = [h EXCEPT ![p] = [start EXCEPT !.pc = "done", !.outcome = "already",
                                             !.today = today]]
                /\ UNCHANGED <<user_counts, user_checkin_data, serial_user>>
           ELSE /\ reward \in Rewards
                /\ user_counts' = Put(user_counts, uid, Get(user_counts, uid, 0) + reward)
                /\ user_checkin_data' = Put(user_checkin_data, uid, today)
                /\ SerialCredit(uid, reward, FALSE)
                /\ h' = [h EXCEPT ![p] = [start EXCEPT !.pc = "ck_save1", !.outcome = "granted",
                                             !.today = today, !.count = reward,
                                             !.file = "user", !.snap = user_counts']]

\* checkin line 143 resumed, line 144 issued: the check-in mapping is serialised now
CkSave1Done(p, wrote) ==
    /\ h[p].pc = "ck_save1"
    /\ SaveFile(h[p].file, h[p].snap, wrote)
    /\ h' = [h EXCEPT ![p].pc = "ck_save2", ![p].file = "checkin",
                      ![p].snap = user_checkin_data]
    /\ UNCHANGED <<conf, user_counts, group_counts, user_checkin_data, clock,
                   serial_user, serial_group>>

\* checkin line 144 resumed, lines 146 and 319
CkSave2Done(p, wrote) ==
    /\ h[p].pc = "ck_save2"
    /\ SaveFile(h[p].file, h[p].snap, wrote)
    /\ h' = [h EXCEPT ![p].pc = "done", ![p].file = "", ![p].snap = EmptyDict]
    /\ UNCHANGED <<conf, user_counts, group_counts, user_checkin_data, clock,
                   serial_user, serial_group>>

\* midnight passes
Tick ==
    /\ clock < MaxDay
    /\ clock' = clock + 1
    /\ UNCHANGED <<conf, user_counts, group_counts, user_checkin_data, user_counts_file,
                   group_counts_file, user_checkin_file, h, serial_user, serial_group,
                   faults>>

-----------------------------------------------------------------------------
(* The admin command *)

\* the all-digit tokens a message can carry: str.isdigit() holds of each
Tokens == {ToString(n) : n \in 1..NUsers}

\* int(x) of an all-digit token
IntOf(x) == CHOOSE n \in 0..9 : ToString(n) = x

\* cmd_add_points lines 345-346: for n in nums: if str(n) != target: count = int(n)
RECURSIVE LastOther(_, _, _)
LastOther(nums, target, count) ==
    IF nums = <<>> THEN count
    ELSE LastOther(Tail(nums), target,
                   IF Head(nums) # target THEN [set |-> TRUE, n |-> IntOf(Head(nums))]
                   ELSE count)

\* cmd_add_points lines 342-346: for comp in event.message_obj.message
RECURSIVE AtLoop(_, _, _)
AtLoop(ats, nums, tc) ==
    IF ats = <<>> THEN tc
    ELSE AtLoop(Tail(ats), nums,
                [target |-> Head(ats), count |-> LastOther(nums, Head(ats), tc.count)])

\* cmd_add_points lines 333-350: target and count from the digit tokens of the
\* message (nums) and the ids of its @-mentions (ats); count.set is "count is not None"
ParseAddPoints(nums, ats) ==
    LET NoCount == [set |-> FALSE, n |-> 0]
        first == IF Len(nums) >= 2
                 THEN [target |-> nums[2],
                       count |-> [set |-> TRUE,
                                  n |-> IF Len(nums) > 2 THEN IntOf(nums[3])
                                        ELSE IntOf(nums[2])]]
                 ELSE [target |-> None, count |-> NoCount]
        looped == AtLoop(ats, nums, first)
    IN  IF ~Truthy(looped.target) /\ Len(nums) >= 2
        THEN [target |-> nums[1], count |-> [set |-> TRUE, n |-> IntOf(nums[2])]]
        ELSE looped

\* cmd_add_points lines 331-353 with admin_add_points lines 150-159: to the save
CmdAddPoints(p, sender, nums, ats) ==
    /\ h[p].pc = "idle"
    /\ UNCHANGED <<conf, user_checkin_data, user_counts_file, group_counts_file,
                   user_checkin_file, clock, faults>>
    /\ LET start == [IdleRec EXCEPT !.op = "add", !.sender = sender]
           tc == ParseAddPoints(nums, ats)
       IN  IF ~is_admin(sender)
           THEN /\ h' = [h EXCEPT ![p] = [start EXCEPT !.pc = "done", !.outcome = "not_admin"]]
                /\ UNCHANGED <<user_counts, group_counts, serial_user, serial_group>>
           ELSE IF Truthy(tc.target) /\ tc.count.set
           THEN LET r == AdminAddPoints(user_counts, group_counts, tc.target, tc.count.n, FALSE)
                IN  /\ user_counts' = r.uc
                    /\ group_counts' = r.gc
                    /\ SerialCredit(tc.target, tc.count.n, FALSE)
                    /\ h' = [h EXCEPT ![p] = [start EXCEPT !.pc = "add_save",
                                 !.nums = nums, !.ats = ats,
                                 !.target_id = tc.target, !.count = tc.count.n,
                                 !.outcome = "added", !.file = r.file, !.snap = r.uc]]
           ELSE /\ h' = [h EXCEPT ![p] = [start EXCEPT !.pc = "done", !.outcome = "format"]]
                /\ UNCHANGED <<user_counts, group_counts, serial_user, serial_group>>

\* admin_add_points lines 159-160 resumed (the balance it reports is read
\* now), cmd_add_points line 354
AddSaveDone(p, wrote) ==
    /\ h[p].pc = "add_save"
    /\ SaveFile(h[p].file, h[p].snap, wrote)
    /\ h' = [h EXCEPT ![p].pc = "done", ![p].file = "", ![p].snap = EmptyDict,
                      ![p].nums = <<>>, ![p].ats = <<>>,
                      ![p].user_cnt = Get(user_counts, h[p].target_id, 0)]
    /\ UNCHANGED <<conf, user_counts, group_counts, user_checkin_data, clock,
                   serial_user, serial_group>>

-----------------------------------------------------------------------------
(* The balance query *)

\* get_user_count / get_group_count: self.user_counts.get(str(user_id), 0)
GetUserCount(user_id) == Get(user_counts, user_id, 0)
GetGroupCount(group_id) == Get(group_counts, group_id, 0)

\* cmd_query lines 323-327: no await, the balances are read and shown in one run
CmdQuery(p, sender, group_id) ==
    /\ h[p].pc = "idle"
    /\ h' = [h EXCEPT ![p] =
           [IdleRec EXCEPT !.op = "query", !.sender = sender, !.group = group_id,
               !.pc = "done", !.outcome = "shown",
               !.user_cnt = GetUserCount(sender),
               !.group_cnt = IF Truthy(group_id) THEN GetGroupCount(group_id) ELSE 0]]
    /\ UNCHANGED <<conf, user_counts, group_counts, user_checkin_data, user_counts_file,
                   group_counts_file, user_checkin_file, clock, serial_user, serial_group,
                   faults>>

-----------------------------------------------------------------------------
(* Ids as the callers pass them: an int, or a str *)

IntId(n) == [t |-> "int", n |-> n, s |-> ""]
StrId(s) == [t |-> "str", n |-> 0, s |-> s]

\* str(id)
Str(id) == IF id.t = "int" THEN ToString(id.n) ELSE id.s

\* truth value of an id: 0 and "" are falsy
TruthyId(id) == IF id.t = "int" THEN id.n # 0 ELSE id.s # ""

\* get_user_count / get_group_count: self.user_counts.get(str(user_id), 0)
GetUserCountRaw(user_id) == GetUserCount(Str(user_id))
GetGroupCountRaw(group_id) == GetGroupCount(Str(group_id))

\* check_and_deduct lines 56-57: uid = str(user_id),
\* gid = str(group_id) if group_id else None
CheckAndDeductRaw(uc, gc, user_id, group_id, eu, eg) ==
    CheckAndDeduct(uc, gc, Str(user_id),
                   IF TruthyId(group_id) THEN Str(group_id) ELSE NoGroup, eu, eg)

\* checkin line 125: uid = str(user_id)
CheckinUid(user_id) == Str(user_id)

\* admin_add_points line 150: tid = str(target_id)
AdminAddPointsRaw(uc, gc, target_id, count, is_group) ==
    AdminAddPoints(uc, gc, Str(target_id), count, is_group)

\* on_message for an event whose ids are of either type: lines 204-210 pass
\* them through str(), the group id also through its truth value
OnMessageRaw(p, sender_id, group_id) ==
    /\ OnMessage(p, Str(sender_id), IF TruthyId(group_id) THEN Str(group_id) ELSE NoGroup)
    /\ h'[p].sender = Str(sender_id)

-----------------------------------------------------------------------------
(* ImageWorkflow.download_image *)

MaxRetries == 3   \* largest max_retries (the default of ImageWorkflow.__init__)

\* range(n)
Range(n) == 0..(n - 1)

\* line 34: if i < self.max_retries
RetryNever(i, max_retries) == FALSE
Retry(i, max_retries) == i < max_retries

\* download_image does not touch the economy
DownloadFrame ==
    UNCHANGED <<conf, user_counts, group_counts, user_checkin_data, user_counts_file,
                group_counts_file, user_checkin_file, clock, serial_user, serial_group,
                faults>>

\* lines 19-21: the call, up to the first request; with an empty range the
\* loop is skipped and line 40 returns None
DownloadImage(p, max_retries) ==
    /\ h[p].pc = "idle"
    /\ LET start == [IdleRec EXCEPT !.op = "download", !.max_retries = max_retries]
       IN  h' = [h EXCEPT ![p] =
                  IF 0 \in Range(max_retries + 1)
                  THEN [start EXCEPT !.pc = "dl_try", !.i = 0]
                  ELSE [start EXCEPT !.pc = "done", !.outcome = "None"]]
    /\ DownloadFrame

\* lines 22-39: attempt i ends, by the response read (line 32 returns the
\* bytes) or by an exception (a refused connection, an error status, the
\* timeout of the request), which the except clause catches
Attempt(p, raised) ==
    /\ h[p].pc = "dl_try"
    /\ LET me == h[p]
           tried == [me EXCEPT !.attempts = me.attempts + 1]
           failed == [tried EXCEPT !.fails = me.fails + 1]
       IN  h' = [h EXCEPT ![p] =
                  IF ~raised
                  THEN [tried EXCEPT !.pc = "done", !.outcome = "bytes"]
                  ELSE IF Retry(me.i, me.max_retries)
                  THEN [failed EXCEPT !.pc = "dl_sleep"]
                  ELSE [failed EXCEPT !.pc = "done", !.outcome = "None"]]
    /\ DownloadFrame

\* line 35 resumed: asyncio.sleep(1) is over, the for loop takes the next i,
\* or line 40 when the range is exhausted
SleepDone(p) ==
    /\ h[p].pc = "dl_sleep"
    /\ LET me == h[p]
       IN  h' = [h EXCEPT ![p] =
                  IF me.i + 1 \in Range(me.max_retries + 1)
                  THEN [me EXCEPT !.pc = "dl_try", !.i = me.i + 1]
                  ELSE [me EXCEPT !.pc = "done", !.outcome = "None"]]
    /\ DownloadFrame

-----------------------------------------------------------------------------
(* Initial states and the next-state relation *)

MaxNums == 3   \* digit tokens in an admin message
MaxAts == 1    \* @-mentions in an admin message

SeqsUpTo(S, n) == UNION {[1..k -> S] : k \in 0..n}

\* the mappings a backing file can hold: some ids, non-negative balances
CountDicts(ids) == UNION {[D -> 0..MaxInit] : D \in SUBSET ids}

\* the two gates: each key absent, True or False
GateConfs ==
    UNION {[D -> {"True", "False"}] : D \in SUBSET {"enable_user_limit", "enable_group_limit"}}

\* the remaining keys of the configuration
BaseConf ==
    [admins_id |-> {ToString(NUsers)}, enable_checkin |-> "True",
     checkin_fixed_reward |-> 1]

\* EconomyManager.__init__ / _load_all: the mappings are what the files hold
BootFiles(confs, ufiles, gfiles, cfiles) ==
    /\ conf \in confs
    /\ user_counts_file \in ufiles
    /\ group_counts_file \in gfiles
    /\ user_checkin_file \in cfiles
    /\ user_counts = LoadJson(user_counts_file)
    /\ group_counts = LoadJson(group_counts_file)
    /\ user_checkin_data = LoadJson(user_checkin_file)
    /\ clock = 1
    /\ h = [p \in Procs |-> IdleRec]
    /\ serial_user = user_counts
    /\ serial_group = group_counts
    /\ faults = 0

\* the same, in a data directory where nobody has checked in yet
Boot(confs, ufiles, gfiles) == BootFiles(confs, ufiles, gfiles, {AbsentFile})

\* a new invocation takes the first free slot
FreeSlot(p) == h[p].pc = "idle" /\ \A q \in Procs : q < p => h[q].pc # "idle"

\* one run of an on_message invocation in slot p; W: the outcomes a file write can have
RequestStep(p, W) ==
    \/ /\ FreeSlot(p)
       /\ \E sender \in Users, group_id \in Groups \cup {NoGroup} :
              OnMessage(p, sender, group_id)
    \/ \E wrote \in W : CdSaveDone(p, wrote)
    \/ \E images \in BOOLEAN, text_only \in BOOLEAN : GetImagesDone(p, images, text_only)
    \/ \E is_bytes \in BOOLEAN : ApiDone(p, is_bytes)
    \/ \E wrote \in W : RefundSaveDone(p, wrote)
    \/ Return(p)

\* a credit is followed while the balance it sets stays within cap
Followed(cap) ==
    \A u \in DOMAIN user_counts' :
        (u \in DOMAIN user_counts /\ user_counts'[u] = user_counts[u]) \/ user_counts'[u] <= cap

\* one run of a cmd_checkin invocation; the reward is the draw of random.randint
CheckinStep(p, W, cap) ==
    \/ /\ FreeSlot(p)
       /\ \E sender \in Users, reward \in 0..cap :
              CmdCheckin(p, sender, reward) /\ Followed(cap)
    \/ \E wrote \in W : CkSave1Done(p, wrote)
    \/ \E wrote \in W : CkSave2Done(p, wrote)

\* the admin messages: the digit tokens of the text and the ids of the @-mentions
Messages == SeqsUpTo(Tokens, MaxNums) \X SeqsUpTo(Users, MaxAts)

\* one message per outcome: "<QQ> <N>", "@user <N>", and one without arguments
FewMessages == {<<<<"2", "1">>, <<>>>>, <<<<"1">>, <<"2">>>>, <<<<>>, <<>>>>}

\* one run of a cmd_add_points invocation on a message of M
AddStep(p, W, cap, M) ==
    \/ /\ FreeSlot(p)
       /\ \E sender \in Users, m \in M :
              CmdAddPoints(p, sender, m[1], m[2]) /\ Followed(cap)
    \/ \E wrote \in W : AddSaveDone(p, wrote)

\* a fresh data directory, or one whose files hold balances; both gates on, or
\* both keys absent
Init ==
    Boot({g @@ BaseConf : g \in {[enable_user_limit |-> "True", enable_group_limit |-> "True"],
                                 EmptyDict}},
         {AbsentFile, OkFile([u \in Users |-> MaxInit])},
         {AbsentFile, OkFile([g \in Groups |-> cost])})

\* all handlers, interleaved at their suspension points; every write succeeds
Next ==
    \E p \in Procs :
        RequestStep(p, {Wrote}) \/ CheckinStep(p, {Wrote}, MaxCount)
                               \/ AddStep(p, {Wrote}, MaxCount, FewMessages)

Spec == Init /\ [][Next]_vars

\* any data directory with balances up to MaxInit, any setting of the two gates
InitRequest ==
    Boot({g @@ BaseConf : g \in GateConfs},
         {AbsentFile} \cup {OkFile(d) : d \in CountDicts(Users)},
         {AbsentFile} \cup {OkFile(d) : d \in CountDicts(Groups)})

\* requests one at a time, all in the first slot: no other operation is interleaved
NextRequest == RequestStep(1, {Wrote})

SpecRequest == InitRequest /\ [][NextRequest]_vars

\* one run of a cmd_query invocation
QueryStep(p) ==
    \/ /\ FreeSlot(p)
       /\ \E sender \in Users, group_id \in Groups \cup {NoGroup} : CmdQuery(p, sender, group_id)
    \/ Return(p)

\* requests, check-ins and admin credits one at a time in the first slot, and
\* balance queries issued in the second slot while the first is busy
NextQuery ==
    \/ RequestStep(1, {Wrote})
    \/ CheckinStep(1, {Wrote}, MaxCount)
    \/ AddStep(1, {Wrote}, MaxCount, FewMessages)
    \/ QueryStep(2)

SpecQuery == Init /\ [][NextQuery]_vars

\* all handlers one at a time, with file writes that can fail
NextFaults ==
    \/ RequestStep(1, WriteOutcomes)
    \/ CheckinStep(1, WriteOutcomes, MaxCount)
    \/ AddStep(1, WriteOutcomes, MaxCount, FewMessages)

SpecFaults == Init /\ [][NextFaults]_vars

\* EconomyManager.__init__ lines 21-23: the mappings before _load_all, over any
\* content of the three files
InitLoad ==
    /\ conf = BaseConf
    /\ user_counts_file \in
           {AbsentFile, CorruptFile, ListFile} \cup {OkFile(d) : d \in CountDicts(Users)}
    /\ group_counts_file \in
           {AbsentFile, CorruptFile, ListFile} \cup {OkFile(d) : d \in CountDicts(Groups)}
    /\ user_checkin_file \in
           {AbsentFile, CorruptFile, ListFile}
               \cup {OkFile(d) : d \in UNION {[D -> {DateStr(1)}] : D \in SUBSET Users}}
    /\ user_counts = EmptyDict
    /\ group_counts = EmptyDict
    /\ user_checkin_data = EmptyDict
    /\ clock = 1
    /\ h = [p \in Procs |-> IdleRec]
    /\ serial_user = EmptyDict
    /\ serial_group = EmptyDict
    /\ faults = 0

\* EconomyManager._load_all
LoadAll ==
    /\ user_counts' = LoadJson(user_counts_file)
    /\ group_counts' = LoadJson(group_counts_file)
    /\ user_checkin_data' = LoadJson(user_checkin_file)
    /\ serial_user' = user_counts'
    /\ serial_group' = group_counts'
    /\ UNCHANGED <<conf, user_counts_file, group_counts_file, user_checkin_file, clock, h,
                   faults>>

SpecLoad == InitLoad /\ [][LoadAll]_vars

\* admin commands with any message, and requests (whose refunds are the
\* other callers of admin_add_points), one at a time
NextAdmin ==
    \/ AddStep(1, {Wrote}, MaxBalance, Messages)
    \/ RequestStep(1, {Wrote})

SpecAdmin == InitRequest /\ [][NextAdmin]_vars

\* every command of the plugin, one at a time, the admin command with any message
NextCommands ==
    \/ AddStep(1, {Wrote}, MaxCount, Messages)
    \/ RequestStep(1, {Wrote})
    \/ CheckinStep(1, {Wrote}, MaxCount)
    \/ QueryStep(1)

SpecCommands == InitRequest /\ [][NextCommands]_vars

\* one run of a download_image call; max_retries is the constructor's argument
DownloadStep(p) ==
    \/ /\ FreeSlot(p)
       /\ \E max_retries \in -1..MaxRetries : DownloadImage(p, max_retries)
    \/ \E raised \in BOOLEAN : Attempt(p, raised)
    \/ SleepDone(p)
    \/ Return(p)

\* downloads in every slot, interleaved
NextDownload == \E p \in Procs : DownloadStep(p)

SpecDownload == Init /\ [][NextDownload]_vars

\* the event loop resumes a coroutine whose awaited operation is over: a request
\* ends within its timeout (line 29), a sleep after one second
DownloadFairness ==
    \A p \in Procs :
        /\ WF_vars(\E raised \in BOOLEAN : Attempt(p, raised))
        /\ WF_vars(SleepDone(p))

SpecDownloadFair == SpecDownload /\ DownloadFairness

\* the ids of either type: the numbers n and their decimal strings
UserNums == 0..NUsers
GroupNums == {0} \cup {10 + i : i \in 1..NGroups}
IdNums == UserNums \cup GroupNums
RawIds(N) == {IntId(n) : n \in N} \cup {StrId(ToString(n)) : n \in N}

\* requests one at a time, with ids of either type
NextIds ==
    \/ /\ FreeSlot(1)
       /\ \E sender_id \in RawIds(UserNums), group_id \in RawIds(GroupNums) \cup {StrId("")} :
              OnMessageRaw(1, sender_id, group_id)
    \/ RequestStep(1, {Wrote})

SpecIds == InitRequest /\ [][NextIds]_vars

\* a configuration key left out, or set to one of vals
Opt(key, vals) == {EmptyDict} \cup {[k \in {key} |-> v] : v \in vals}

\* the check-in settings: each key absent or set; the maximum also <= 0
CheckinConfs ==
    {a @@ b @@ c @@ d @@ [admins_id |-> {}] :
        a \in Opt("enable_checkin", {"True", "False"}),
        b \in Opt("enable_random_checkin", {"True", "False"}),
        c \in Opt("checkin_fixed_reward", {0, 2}),
        d \in Opt("checkin_random_reward_max", {-1, 0, 2})}

\* a fresh data directory, or one where user "1" has a balance and checked in
\* on the first day
InitCheckin ==
    BootFiles(CheckinConfs,
              {AbsentFile, OkFile([u \in {"1"} |-> 1])},
              {AbsentFile},
              {AbsentFile, OkFile([u \in {"1"} |-> DateStr(1)])})

\* check-ins of all users, interleaved at their saves, over the days
NextCheckin ==
    \/ \E p \in Procs : CheckinStep(p, {Wrote}, MaxBalance) \/ Return(p)
    \/ Tick

SpecCheckin == InitCheckin /\ [][NextCheckin]_vars

-----------------------------------------------------------------------------
(* Properties *)

\* the gates as check_and_deduct documents them: user limit on unless set to
\* False, group limit off unless set to True
UserGate ==
    IF "enable_user_limit" \in DOMAIN conf THEN conf["enable_user_limit"] = "True" ELSE TRUE
GroupGate ==
    IF "enable_group_limit" \in DOMAIN conf THEN conf["enable_group_limit"] = "True" ELSE FALSE

\* both gates are set, to True or to False
GatesExplicit == {"enable_user_limit", "enable_group_limit"} \subseteq DOMAIN conf

\* this step is slot p's call of check_and_deduct(h'[p].sender, h'[p].group)
Called(p) ==
    /\ h[p].pc = "idle"
    /\ h'[p].pc # "idle"
    /\ h'[p].op = "msg"
    /\ ~h'[p].skip_cost

\* the call rejected; it was admitted
Rejected(p) == h'[p].pc = "done" /\ h'[p].outcome = "rejected"
AdmittedCall(p) == h'[p].pc \in {"cd_save", "images"}

\* nothing the economy stores changed
NoMutation ==
    UNCHANGED <<user_counts, group_counts, user_checkin_data, user_counts_file,
                group_counts_file, user_checkin_file>>

\* an on_message request whose generation failed
Failed(r) == r.op = "msg" /\ r.outcome \in {"noimage", "apierror"}

\* C1: every entry of user_counts and group_counts is >= 0 in every reachable
\* state, whatever the interleaving of requests, refunds, check-ins and admin credits
C1_NonNegative ==
    /\ \A u \in DOMAIN user_counts : user_counts[u] >= 0
    /\ \A g \in DOMAIN group_counts : group_counts[g] >= 0

\* C1 witness: a debit took a user's balance to 0 and, while its save is in
\* flight, a second request of the same user was rejected
C1_Witness ==
    \E p, q \in Procs :
        /\ p # q
        /\ h[p].pc = "cd_save" /\ h[p].source = "user"
        /\ Get(user_counts, h[p].sender, 0) = 0
        /\ h[q].op = "msg" /\ h[q].outcome = "rejected" /\ h[q].sender = h[p].sender

\* C2: balance mutations are serialised per subject: the mappings equal the
\* balances obtained by applying every admitted debit and every credit one
\* after the other, and these never go below 0 (a subject with balance k admits
\* at most k debits)
C2_Serialized ==
    /\ user_counts = serial_user
    /\ group_counts = serial_group
    /\ \A u \in DOMAIN serial_user : serial_user[u] >= 0
    /\ \A g \in DOMAIN serial_group : serial_group[g] >= 0

\* C2 witness: two calls of check_and_deduct are in flight together, both
\* admitted with a debit of the same user
C2_Witness ==
    \E p, q \in Procs :
        /\ p # q
        /\ h[p].pc = "cd_save" /\ h[p].source = "user"
        /\ h[q].pc = "cd_save" /\ h[q].source = "user"
        /\ h[q].sender = h[p].sender

\* C3 (as claimed): for every setting of the two gates to True or False, when
\* a request admitted with a debit fails, the refund credits the ledger and id
\* that were debited: the debited balance goes up by the cost and the other
\* ledger is unchanged (so the balances return to their values before the request)
C3_RefundRestores ==
    [][\A p \in Procs :
         (/\ GatesExplicit
          /\ h[p].pc \in {"images", "api"} /\ h[p].deducted
          /\ Failed(h'[p])) =>
             /\ user_counts' =
                  IF h[p].source = "user"
                  THEN Put(user_counts, h[p].sender, Get(user_counts, h[p].sender, 0) + cost)
                  ELSE user_counts
             /\ group_counts' =
                  IF h[p].source = "group"
                  THEN Put(group_counts, h[p].group, Get(group_counts, h[p].group, 0) + cost)
                  ELSE group_counts]_vars

\* C4 (as claimed): every request ends with the credits its debit calls for: none
\* after a success, exactly one after a failure of a debited request, none for a
\* request admitted without a debit
C4_DebitPaired ==
    \A p \in Procs :
        (h[p].op = "msg" /\ h[p].pc = "done") =>
            /\ h[p].outcome = "success" => h[p].refunds = 0
            /\ (Failed(h[p]) /\ h[p].deducted) => h[p].refunds = 1
            /\ ~h[p].deducted => h[p].refunds = 0

\* C5: with the group gate on, a group id present and the group balance below
\* the cost, check_and_deduct rejects and mutates nothing, whatever the user's
\* balance and the user gate
C5_HardVeto ==
    [][\A p \in Procs :
         (/\ Called(p)
          /\ GroupGate
          /\ Truthy(h'[p].group)
          /\ Get(group_counts, h'[p].group, 0) < cost) =>
             Rejected(p) /\ NoMutation]_vars

\* C5 witness: a request was rejected although the user gate is on and the
\* sender's balance covers the cost, because the group's does not
C5_Witness ==
    \E p \in Procs :
        /\ h[p].op = "msg" /\ h[p].outcome = "rejected"
        /\ UserGate /\ GroupGate /\ Truthy(h[p].group)
        /\ Get(user_counts, h[p].sender, 0) >= cost
        /\ Get(group_counts, h[p].group, 0) < cost

\* C6: with both gates on, a group id present, user balance < cost and group
\* balance >= cost, the call is admitted, the group balance drops by the cost
\* and the user balance is unchanged; with the user gate on, user balance < cost
\* and the group gate off or no group id, it rejects and mutates nothing
C6_Fallback ==
    [][\A p \in Procs :
         (Called(p) /\ UserGate /\ Get(user_counts, h'[p].sender, 0) < cost) =>
             LET gid == h'[p].group
                 g_cnt == Get(group_counts, gid, 0)
             IN  /\ (GroupGate /\ Truthy(gid) /\ g_cnt >= cost) =>
                        /\ AdmittedCall(p)
                        /\ h'[p].deducted
                        /\ group_counts' = Put(group_counts, gid, g_cnt - cost)
                        /\ user_counts' = user_counts
                 /\ (~GroupGate \/ ~Truthy(gid)) => Rejected(p) /\ NoMutation]_vars

\* C6 witness: a request of a user with balance 0 is admitted on the group's balance
C6_Witness ==
    \E p \in Procs :
        /\ h[p].pc = "cd_save" /\ h[p].source = "group"
        /\ UserGate /\ GroupGate
        /\ Get(user_counts, h[p].sender, 0) = 0
        /\ h[p].snap = group_counts

\* C7: with the user gate on, user balance >= cost and no group veto, the call
\* is admitted, the user balance drops by the cost and the group balance is
\* unchanged, also when the group gate is on and the group could pay
C7_UserFirst ==
    [][\A p \in Procs :
         (/\ Called(p)
          /\ UserGate
          /\ Get(user_counts, h'[p].sender, 0) >= cost
          /\ ~(GroupGate /\ Truthy(h'[p].group)
                 /\ Get(group_counts, h'[p].group, 0) < cost)) =>
             /\ AdmittedCall(p)
             /\ h'[p].deducted
             /\ user_counts' = Put(user_counts, h'[p].sender,
                                   Get(user_counts, h'[p].sender, 0) - cost)
             /\ group_counts' = group_counts]_vars

\* C7 witness: the user was debited although the group gate is on and the
\* group's balance covers the cost
C7_Witness ==
    \E p \in Procs :
        /\ h[p].pc = "cd_save" /\ h[p].source = "user"
        /\ UserGate /\ GroupGate /\ Truthy(h[p].group)
        /\ Get(group_counts, h[p].group, 0) >= cost

\* C8: with both gates off, every call is admitted, no save is issued, and the
\* mappings and the backing files are unchanged, for all balances, with or
\* without a group id
C8_Unrestricted ==
    [][\A p \in Procs :
         (Called(p) /\ ~UserGate /\ ~GroupGate) =>
             /\ AdmittedCall(p)
             /\ h'[p].pc = "images" /\ ~h'[p].deducted /\ h'[p].file = ""
             /\ NoMutation]_vars

\* C8 witness: with both gates off a request of a user with balance 0 in a
\* group with balance 0 is admitted
C8_Witness ==
    \E p \in Procs :
        /\ h[p].op = "msg" /\ h[p].pc = "images" /\ ~h[p].skip_cost
        /\ ~UserGate /\ ~GroupGate
        /\ Truthy(h[p].group)
        /\ Get(user_counts, h[p].sender, 0) = 0
        /\ Get(group_counts, h[p].group, 0) = 0

\* C9 (as claimed): with the user gate off and the group gate on, the call is
\* admitted exactly when the group balance is >= cost, and then the group
\* balance drops by the cost; otherwise it rejects; the user ledger is unchanged
C9_GroupOnly ==
    [][\A p \in Procs :
         (Called(p) /\ ~UserGate /\ GroupGate) =>
             LET gid == GidOf(h'[p].group)
                 g_cnt == Get(group_counts, gid, 0)
             IN  /\ AdmittedCall(p) <=> g_cnt >= cost
                 /\ AdmittedCall(p) =>
                        /\ h'[p].deducted
                        /\ group_counts' = Put(group_counts, gid, g_cnt - cost)
                 /\ ~AdmittedCall(p) => Rejected(p) /\ NoMutation
                 /\ user_counts' = user_counts]_vars

\* C10 (as claimed): whenever at least one gate is on, an admitted call has
\* debited exactly one ledger
C10_NoFreeAdmission ==
    [][\A p \in Procs :
         (Called(p) /\ (UserGate \/ GroupGate) /\ AdmittedCall(p)) =>
             /\ h'[p].deducted
             /\ \/ user_counts' # user_counts /\ group_counts' = group_counts
                \/ user_counts' = user_counts /\ group_counts' # group_counts]_vars

\* C11: a rejection by check_and_deduct is a reported outcome: the call returns
\* (False, reason) with a non-empty reason, issues no save, and leaves
\* user_counts, group_counts, user_checkin_data (and the files) as they were
C11_RejectionIsOutcome ==
    [][\A p \in Procs :
         (Called(p) /\ ~AdmittedCall(p)) =>
             /\ Rejected(p)
             /\ h'[p].msg # ""
             /\ h'[p].file = "" /\ ~h'[p].deducted
             /\ NoMutation]_vars

\* C11 witness: a request was rejected because the sender cannot pay and no
\* group fallback applies; memory and file are as before the call
C11_Witness ==
    \E p \in Procs :
        /\ h[p].op = "msg" /\ h[p].outcome = "rejected"
        /\ h[p].msg = "user short"
        /\ UserGate
        /\ Get(user_counts, h[p].sender, 0) < cost
        /\ LoadJson(user_counts_file) = user_counts

\* the check-in settings as documented: check-in and the random draw are on
\* only when set to True; the fixed reward and the maximum of the draw as
\* configured (3 and 5 when left out)
CheckinGate == "enable_checkin" \in DOMAIN conf /\ conf["enable_checkin"] = "True"
RandomGate == "enable_random_checkin" \in DOMAIN conf /\ conf["enable_random_checkin"] = "True"
FixedReward ==
    IF "checkin_fixed_reward" \in DOMAIN conf THEN conf["checkin_fixed_reward"] ELSE 3
RandomMax ==
    IF "checkin_random_reward_max" \in DOMAIN conf THEN conf["checkin_random_reward_max"] ELSE 5

\* this step is slot p's call of checkin(h'[p].sender)
CheckinCalled(p) == h[p].pc = "idle" /\ h'[p].op = "checkin"

\* C12: at most one check-in reward per user and calendar day, for every
\* interleaving of check-ins: a call of a user who has no grant today is
\* granted and records today; from then on, for the rest of the day, the record
\* stays, every call of that user reports already-checked-in and changes
\* nothing; no two grants of one user carry the same date
C12_OncePerDay ==
    [][/\ \A p \in Procs :
            (CheckinCalled(p) /\ CheckinGate) =>
                LET u == h'[p].sender
                    d == DateStr(clock)
                IN  IF Get(user_checkin_data, u, None) = d
                    THEN h'[p].outcome = "already" /\ NoMutation
                    ELSE /\ h'[p].outcome = "granted"
                         /\ Get(user_checkin_data', u, None) = d
       /\ \A u \in Users :
            (Get(user_checkin_data, u, None) = DateStr(clock) /\ clock' = clock) =>
                /\ Get(user_checkin_data', u, None) = DateStr(clock)
                /\ Get(user_counts', u, 0) = Get(user_counts, u, 0)
       /\ \A p, q \in Procs :
            (/\ p # q
             /\ h'[p].op = "checkin" /\ h'[p].outcome = "granted"
             /\ h'[q].op = "checkin" /\ h'[q].outcome = "granted"
             /\ h'[p].sender = h'[q].sender) => h'[p].today # h'[q].today]_vars

\* C12 witness: while the saves of a user's granted check-in are in flight, a
\* second check-in of the same user on the same day reported already-checked-in
C12_Witness ==
    \E p, q \in Procs :
        /\ p # q
        /\ h[p].op = "checkin" /\ h[p].outcome = "granted" /\ h[p].pc = "ck_save1"
        /\ h[q].op = "checkin" /\ h[q].outcome = "already"
        /\ h[q].sender = h[p].sender /\ h[q].today = h[p].today
        /\ Get(user_counts, h[p].sender, 0) = h[p].count

\* C13: the reward of a granted check-in is an integer in
\* [1, max(1, checkin_random_reward_max)] when the random draw is on, also for
\* a maximum <= 0, and exactly checkin_fixed_reward otherwise; the user's
\* balance goes up by exactly the reward and no other balance changes
C13_RewardRange ==
    [][\A p \in Procs :
         (CheckinCalled(p) /\ h'[p].outcome = "granted") =>
             LET u == h'[p].sender
                 reward == h'[p].count
             IN  /\ IF RandomGate
                    THEN reward \in 1..(IF RandomMax >= 1 THEN RandomMax ELSE 1)
                    ELSE reward = FixedReward
                 /\ user_counts' = Put(user_counts, u, Get(user_counts, u, 0) + reward)
                 /\ group_counts' = group_counts]_vars

\* C13 witness: with the random draw on and a maximum of -1 a check-in was
\* granted a reward of 1
C13_Witness ==
    \E p \in Procs :
        /\ h[p].op = "checkin" /\ h[p].outcome = "granted"
        /\ RandomGate /\ RandomMax = -1
        /\ h[p].count = 1
        /\ Get(user_counts, h[p].sender, 0) >= 1

\* C14: with enable_checkin off, checkin returns the disabled outcome, issues
\* no save and changes no balance, no check-in date and no backing file,
\* whatever the user's check-in record
C14_DisabledFrame ==
    [][\A p \in Procs :
         (CheckinCalled(p) /\ ~CheckinGate) =>
             /\ h'[p].pc = "done" /\ h'[p].outcome = "disabled"
             /\ h'[p].file = ""
             /\ NoMutation]_vars

\* C14 witness: check-in is off and a user whose last check-in was the day
\* before got the disabled outcome
C14_Witness ==
    \E p \in Procs :
        /\ h[p].op = "checkin" /\ h[p].outcome = "disabled"
        /\ ~CheckinGate
        /\ clock = 2
        /\ Get(user_checkin_data, h[p].sender, None) = DateStr(1)

\* slot p is inside check_and_deduct, checkin or admin_add_points, at a save
InFlight(p) == h[p].pc \in {"cd_save", "refund_save", "ck_save1", "ck_save2", "add_save"}

\* C15 (as claimed): whenever no operation is in flight and no write has failed,
\* each backing file holds the in-memory mapping, for every interleaving of the
\* operations and of their writes (so no earlier snapshot has replaced a later one)
C15_WriteThrough ==
    ((\A p \in Procs : ~InFlight(p)) /\ faults = 0) =>
        /\ LoadJson(user_counts_file) = user_counts
        /\ LoadJson(group_counts_file) = group_counts
        /\ LoadJson(user_checkin_file) = user_checkin_data

\* this step is slot p's cmd_query
QueryCalled(p) == h[p].pc = "idle" /\ h'[p].op = "query"

\* C16 (as claimed): a balance query by another caller, made while operations
\* are in flight, returns committed balances: what the backing files hold, never
\* the result of a mutation whose save has not completed
C16_ReadsCommitted ==
    [][\A p \in Procs :
         (QueryCalled(p) /\ faults = 0) =>
             /\ h'[p].user_cnt = Get(LoadJson(user_counts_file), h'[p].sender, 0)
             /\ Truthy(h'[p].group) =>
                    h'[p].group_cnt = Get(LoadJson(group_counts_file), h'[p].group, 0)]_vars

\* C17 (as claimed): when the write of a save fails, the operation goes on as
\* after a successful write and reports its normal result, the mappings keep
\* the mutation, and the backing files keep the content they had
C17_FailureAbsorbed ==
    [][\A p \in Procs :
         (InFlight(p) /\ h'[p].pc # h[p].pc /\ faults' = faults + 1) =>
             /\ h'[p].pc = CASE h[p].pc = "cd_save" -> "images"
                             [] h[p].pc = "ck_save1" -> "ck_save2"
                             [] OTHER -> "done"
             /\ h'[p].outcome = h[p].outcome
             /\ UNCHANGED <<user_counts, group_counts, user_checkin_data>>
             /\ h[p].file = "user" => h[p].snap = user_counts
             /\ h[p].file = "group" => h[p].snap = group_counts
             /\ h[p].file = "checkin" => h[p].snap = user_checkin_data
             /\ UNCHANGED <<user_counts_file, group_counts_file, user_checkin_file>>]_vars

\* C18 (as claimed): loading yields a mapping for every content of the backing
\* file: the empty mapping when the file is absent or does not parse, the
\* mapping the file holds otherwise
C18_LoadYieldsMapping ==
    [][/\ IsDict(user_counts') /\ IsDict(group_counts') /\ IsDict(user_checkin_data')
       /\ user_counts_file.st \in {"absent", "corrupt"} => user_counts' = EmptyDict
       /\ group_counts_file.st \in {"absent", "corrupt"} => group_counts' = EmptyDict
       /\ user_checkin_file.st \in {"absent", "corrupt"} => user_checkin_data' = EmptyDict
       /\ user_counts_file.st = "ok" => user_counts' = user_counts_file.data]_vars

\* C19 (as claimed): an admin's message of the documented form "<QQ> <N>" (two
\* digit tokens, no @-mention) credits user <QQ> by <N>; no other user's and no
\* group's balance changes
C19_DocumentedForm ==
    [][\A p \in Procs :
         (/\ h[p].pc = "idle" /\ h'[p].op = "add"
          /\ h'[p].sender \in conf["admins_id"]
          /\ Len(h'[p].nums) = 2 /\ h'[p].ats = <<>>) =>
             LET qq == h'[p].nums[1]
                 n == IntOf(h'[p].nums[2])
             IN  /\ user_counts' = Put(user_counts, qq, Get(user_counts, qq, 0) + n)
                 /\ group_counts' = group_counts]_vars

\* this step is slot p's call of admin_add_points(h'[p].target_id, h'[p].count,
\* is_group), by cmd_add_points or by a refund; is_group iff the group file is saved
AddPointsCalled(p) ==
    h[p].pc \in {"idle", "images", "api"} /\ h'[p].pc \in {"add_save", "refund_save"}

\* C20: admin_add_points(id, amount, is_group) sets the balance of id in the
\* selected namespace to old + amount and changes no other balance, not the
\* other namespace, not the check-in tracker; it saves that namespace's mapping
\* to that namespace's file and reports the new balance
C20_CreditFrame ==
    [][\A p \in Procs :
         /\ AddPointsCalled(p) =>
                LET id == h'[p].target_id
                    amount == h'[p].count
                IN  /\ h'[p].file \in {"user", "group"}
                    /\ h'[p].file = "group" =>
                           /\ group_counts' =
                                  Put(group_counts, id, Get(group_counts, id, 0) + amount)
                           /\ user_counts' = user_counts
                           /\ h'[p].snap = group_counts'
                    /\ h'[p].file = "user" =>
                           /\ user_counts' =
                                  Put(user_counts, id, Get(user_counts, id, 0) + amount)
                           /\ group_counts' = group_counts
                           /\ h'[p].snap = user_counts'
                    /\ UNCHANGED <<user_checkin_data, user_counts_file, group_counts_file,
                                   user_checkin_file>>
         /\ (h[p].pc \in {"add_save", "refund_save"} /\ h'[p].pc = "done") =>
                /\ h[p].file = "group" =>
                       /\ group_counts_file' = OkFile(h[p].snap)
                       /\ h'[p].group_cnt = h[p].snap[h[p].target_id]
                       /\ UNCHANGED <<user_counts_file, user_checkin_file>>
                /\ h[p].file = "user" =>
                       /\ user_counts_file' = OkFile(h[p].snap)
                       /\ h'[p].user_cnt = h[p].snap[h[p].target_id]
                       /\ UNCHANGED <<group_counts_file, user_checkin_file>>
                /\ UNCHANGED <<user_counts, group_counts, user_checkin_data>>]_vars

\* C20 witness: a refund has credited a group (is_group) that had balance 0,
\* the group file holds the new mapping and the user file still matches
\* the user ledger
C20_Witness ==
    \E p \in Procs :
        /\ h[p].pc = "done" /\ h[p].refund_to = "group"
        /\ h[p].group_cnt = 1
        /\ Get(group_counts, h[p].target_id, 0) = 1
        /\ group_counts_file = OkFile(group_counts)
        /\ LoadJson(user_counts_file) = user_counts

\* C21 (as claimed): every operation of the economy treats the integer n and
\* the decimal string of n as the same subject, as user id and as group id:
\* same balance read, same record selected, same result and same mappings
\* after check_and_deduct and admin_add_points
C21_IdsCanonical ==
    \A n \in IdNums, m \in IdNums :
        LET i == IntId(n)
            s == StrId(ToString(n))
            gi == IntId(m)
            gs == StrId(ToString(m))
        IN  /\ GetUserCountRaw(i) = GetUserCountRaw(s)
            /\ GetGroupCountRaw(gi) = GetGroupCountRaw(gs)
            /\ CheckinUid(i) = CheckinUid(s)
            /\ \A is_group \in BOOLEAN :
                   AdminAddPointsRaw(user_counts, group_counts, i, 1, is_group)
                       = AdminAddPointsRaw(user_counts, group_counts, s, 1, is_group)
            /\ CheckAndDeductRaw(user_counts, group_counts, i, gi,
                                 EnableUserLimit, EnableGroupLimit)
                   = CheckAndDeductRaw(user_counts, group_counts, s, gs,
                                       EnableUserLimit, EnableGroupLimit)

\* C22 (as claimed): whenever the check-in file holds a user's latest check-in date,
\* the balance file holds that user's balance with the reward of that check-in:
\* the persisted date is never present without the persisted reward
C22_DateAfterReward ==
    \A u \in Users :
        LET on_file == Get(LoadJson(user_checkin_file), u, None)
        IN  (on_file # None /\ on_file = Get(user_checkin_data, u, None))
                => Get(LoadJson(user_counts_file), u, 0) = Get(user_counts, u, 0)

\* the sender's user balance plus the balance of the group of the request
Total(uc, gc, sender, group) ==
    Get(uc, sender, 0) + (IF Truthy(group) THEN Get(gc, group, 0) ELSE 0)

\* C23: with both gates set to True or False and requests one at a time, a
\* non-admin request takes the cost out of the sum of the sender's balance and
\* the group's balance exactly when it is admitted with a debit, its failure
\* puts the cost of that debit back into the sum (into either ledger), and no
\* other step of the request changes the sum: after a failed request the sum
\* is what it was before
C23_SumConserved ==
    [][\A p \in Procs :
         (GatesExplicit /\ h'[p].op = "msg" /\ ~h'[p].skip_cost) =>
            LET r == h'[p]
                before == Total(user_counts, group_counts, r.sender, r.group)
                after == Total(user_counts', group_counts', r.sender, r.group)
            IN  IF Called(p)
                THEN after = before - (IF r.deducted THEN cost ELSE 0)
                ELSE IF h[p].pc \in {"images", "api"} /\ Failed(r)
                THEN after = before + (IF h[p].deducted THEN cost ELSE 0)
                ELSE after = before]_vars

\* C23 witness: a request debited from the group failed and its refund went to
\* the sender's user balance
C23_Witness ==
    \E p \in Procs :
        /\ GatesExplicit
        /\ Failed(h[p]) /\ h[p].pc = "done" /\ ~h[p].skip_cost
        /\ h[p].deducted /\ h[p].source = "group"
        /\ h[p].refunds = 1 /\ h[p].refund_to = "user"

\* the sender of the request is one of the configured admins
AdminSender(r) ==
    r.op = "msg" /\ "admins_id" \in DOMAIN conf /\ r.sender \in conf["admins_id"]

\* C24: no step of an admin's preset request changes user_counts or
\* group_counts: the request is never rejected, never debited (no
\* check_and_deduct, no save of a debit) and never refunded, whether it ends in
\* success, in a failed generation or without an image
C24_AdminBypass ==
    [][\A p \in Procs :
         AdminSender(h'[p]) =>
            /\ UNCHANGED <<user_counts, group_counts, user_counts_file, group_counts_file>>
            /\ ~h'[p].deducted /\ h'[p].refunds = 0
            /\ h'[p].pc \notin {"cd_save", "refund_save"}
            /\ h'[p].outcome # "rejected"]_vars

\* C24 witness: an admin with a balance sent a request under both gates, in a
\* group with a balance, and the generation failed: nothing was debited or refunded
C24_Witness ==
    \E p \in Procs :
        /\ AdminSender(h[p]) /\ h[p].pc = "done" /\ h[p].outcome = "apierror"
        /\ UserGate /\ GroupGate /\ Truthy(h[p].group)
        /\ Get(user_counts, h[p].sender, 0) >= cost
        /\ Get(group_counts, h[p].group, 0) >= cost
        /\ h[p].refunds = 0

\* the invocation that takes this step in slot p, and whether its sender is a non-admin
Stepping(p) == IF h[p].pc = "idle" THEN h'[p] ELSE h[p]
NonAdmin(r) == ~("admins_id" \in DOMAIN conf /\ r.sender \in conf["admins_id"])

\* the balances this step increases
UsersUp == {u \in DOMAIN user_counts' : user_counts'[u] > Get(user_counts, u, 0)}
GroupsUp == {g \in DOMAIN group_counts' : group_counts'[g] > Get(group_counts, g, 0)}

\* C25: cmd_add_points called by a sender who is not in admins_id ends at once
\* and changes no user or group balance, whatever the message; and a step of a
\* non-admin's invocation that increases a balance is either the grant of that
\* sender's check-in (the sender's user balance only) or the refund of that
\* sender's own failed request (the sender's user balance, or the balance of
\* the group of the request)
C25_NoSelfCredit ==
    [][\A p \in Procs :
         (h'[p].pc # h[p].pc /\ NonAdmin(Stepping(p))) =>
            LET r == Stepping(p)
            IN  /\ r.op = "add" =>
                      /\ UNCHANGED <<user_counts, group_counts, user_counts_file,
                                     group_counts_file>>
                      /\ h'[p].pc \in {"done", "idle"}
                /\ (UsersUp # {} \/ GroupsUp # {}) =>
                      \/ /\ r.op = "checkin" /\ h[p].pc = "idle" /\ r.outcome = "granted"
                         /\ UsersUp = {r.sender} /\ GroupsUp = {}
                      \/ /\ r.op = "msg" /\ h[p].pc \in {"images", "api"} /\ Failed(h'[p])
                         /\ \/ UsersUp = {r.sender} /\ GroupsUp = {}
                            \/ UsersUp = {} /\ GroupsUp = {r.group}]_vars

\* C25 witness: a non-admin's admin command has ended without a credit
C25_Witness ==
    \E p \in Procs :
        /\ h[p].op = "add" /\ NonAdmin(h[p])
        /\ h[p].pc = "done" /\ h[p].outcome = "not_admin"
        /\ h[p].file = "" /\ h[p].count = 0

\* a download_image call in slot p
Downloading(p) == h[p].op = "download"

\* the attempts a call with this max_retries can make
MostAttempts(max_retries) == Max(0, max_retries + 1)

\* C26: every call of download_image returns; it never makes more than
\* max_retries + 1 attempts; when it returns bytes the successful attempt is
\* its first success and its last attempt (every attempt before it failed); it
\* returns None only when all max_retries + 1 attempts have failed; and it ends
\* in no other way
C26_Terminates ==
    /\ [](\A p \in Procs :
            Downloading(p) =>
               LET r == h[p]
               IN  /\ r.attempts <= MostAttempts(r.max_retries)
                   /\ r.pc = "done" => r.outcome \in {"bytes", "None"}
                   /\ r.pc # "done" => r.outcome = "" /\ r.fails = r.attempts
                   /\ r.outcome = "bytes" => r.attempts = r.fails + 1
                   /\ r.outcome = "None" =>
                          r.fails = r.attempts /\ r.attempts = MostAttempts(r.max_retries))
    /\ \A p \in Procs : Downloading(p) ~> (Downloading(p) /\ h[p].pc = "done")

\* C26 witness: one call returned the bytes of its second attempt, another
\* returned None after MaxRetries + 1 failed attempts
C26_Witness ==
    \E p, q \in Procs :
        /\ Downloading(p) /\ h[p].pc = "done" /\ h[p].outcome = "bytes"
        /\ h[p].attempts = 2 /\ h[p].max_retries = MaxRetries
        /\ Downloading(q) /\ h[q].pc = "done" /\ h[q].outcome = "None"
        /\ h[q].attempts = MaxRetries + 1

====
